---- MODULE Spec2Model ----
(***************************************************************************)
(* Model of mcp_server_motherduck/database.py: DatabaseClient.             *)
(*                                                                         *)
(* Strings that the code inspects by prefix (the database path) are        *)
(* sequences of one-character strings, so startswith and the f-string      *)
(* concatenations are computed as the code computes them.  Backend error   *)
(* messages are sequences of phrases; the `in` substring test of the       *)
(* attach handler is containment of a phrase.  The embedded engine         *)
(* (duckdb) is external: every connect/execute/fetch outcome is a          *)
(* nondeterministic input.                                                 *)
(***************************************************************************)
EXTENDS Naturals, Sequences, FiniteSets, TLC

VARIABLES
    pc,            \* position of the constructor: "new", "resolved", "s3_ext", "s3_secret", "s3_attach", "ready", "failed"
    args,          \* constructor arguments and the process environment read by the code
    read_only,     \* self._read_only
    db_path,       \* self.db_path (resolved address)
    db_type,       \* self.db_type
    conn,          \* self.conn
    local_conn,    \* the local variable `conn` of _initialize_connection on the S3 path
    conns,         \* backend: every connection ever opened, by id
    connectCalls,  \* backend: number of duckdb.connect invocations
    stmts,         \* backend: statements issued during initialization, with their outcome
    error,         \* exception that left the constructor
    last,          \* outcome of the most recent query() call (cause: the backend exception caught)
    nOk,           \* query() calls that returned
    nFail,         \* query() calls that raised
    calls          \* resolver calls observed in isolation (SpecResolve)

vars == <<pc, args, read_only, db_path, db_type, conn, local_conn, conns,
          connectCalls, stmts, error, last, nOk, nFail, calls>>

clientVars == <<pc, args, read_only, db_path, db_type, conn, local_conn, conns,
                connectCalls, stmts, error, last, nOk, nFail>>

MaxQueries == 3

-----------------------------------------------------------------------------
(* Text *)

StartsWith(s, p) == Len(s) >= Len(p) /\ SubSeq(s, 1, Len(p)) = p

S3Prefix == <<"s", "3", ":", "/", "/">>
MdPrefix == <<"m", "d", ":">>
MemoryPath == <<":", "m", "e", "m", "o", "r", "y", ":">>
TokenParam == <<"?", "m", "o", "t", "h", "e", "r", "d", "u", "c", "k", "_",
                "t", "o", "k", "e", "n", "=">>
SaasParam == <<"&", "s", "a", "a", "s", "_", "m", "o", "d", "e", "=",
               "t", "r", "u", "e">>

\* A phrase occurs in a message (Python: phrase in str(e)).
Contains(msg, phrase) == \E i \in 1..Len(msg) : msg[i] = phrase

\* Optional[str]: {} is None, {s} is the string s.  Python truthiness.
Truthy(opt) == \E s \in opt : Len(s) > 0
TheStr(opt) == CHOOSE s \in opt : TRUE

-----------------------------------------------------------------------------
(* Inputs *)

Paths ==
    { <<"s", "3", ":", "/", "/", "b">>,
      <<"s", "3", ":", "/", "/">>,
      <<"S", "3", ":", "/", "/", "b">>,
      <<"s", "3", ":", "/", "b">>,
      <<"m", "d", ":">>,
      <<"m", "d", ":", "d", "b">>,
      <<"M", "D", ":", "d", "b">>,
      MemoryPath,
      MemoryPath \o <<"x">>,
      <<"a", ".", "d", "b">> }

\* --motherduck-token and os.getenv("motherduck_token"): None, "" or a token.
ArgTokens == { {}, {<<>>}, {<<"a", "1">>} }
EnvTokens == { {}, {<<>>}, {<<"e", "2">>} }

\* Backend outcomes: OK, or the message of the exception raised.
OK == <<>>
MsgMissing == <<"IO Error:", "database does not exist">>
MsgAlready == <<"extension httpfs", "already installed">>
MsgOther == <<"HTTP Error:", "403 Forbidden">>
MsgSyntax == <<"Parser Error:", "syntax error at or near">>
MsgClosed == <<"Connection Error:", "connection already closed">>

NoError == [type |-> "none", msg |-> <<>>]
NoCall == [status |-> "none", type |-> "none", msg |-> <<>>, cause |-> <<>>,
           connects |-> 0, executes |-> 0, closes |-> 0]

NoAttr == [assigned |-> FALSE, handle |-> {}]
NoneHandle == [assigned |-> TRUE, handle |-> {}]
Handle(id) == [assigned |-> TRUE, handle |-> {id}]

-----------------------------------------------------------------------------
(* _resolve_db_path_type *)

ResolveTokenMsg == <<"Please set the motherduck_token">>

\* Mutant of ResolveMd: a missing token is not checked.
ResolveMdUnchecked(path, motherduck_token, env_token, saas_mode) ==
    IF Truthy(motherduck_token)
    THEN [ok |-> TRUE, db_type |-> "motherduck",
          db_path |-> path \o TokenParam \o TheStr(motherduck_token)
                        \o (IF saas_mode THEN SaasParam ELSE <<>>)]
    ELSE [ok |-> TRUE, db_type |-> "motherduck",
          db_path |-> path \o TokenParam
                        \o (IF env_token = {} THEN <<>> ELSE TheStr(env_token))]

\* Lines 139-164: the md: branch.
ResolveMd(path, motherduck_token, env_token, saas_mode) ==
    IF Truthy(motherduck_token)
    THEN IF saas_mode
         THEN [ok |-> TRUE,
               db_path |-> path \o TokenParam \o TheStr(motherduck_token) \o SaasParam,
               db_type |-> "motherduck"]
         ELSE [ok |-> TRUE,
               db_path |-> path \o TokenParam \o TheStr(motherduck_token),
               db_type |-> "motherduck"]
    ELSE IF Truthy(env_token)
    THEN [ok |-> TRUE,
          db_path |-> path \o TokenParam \o TheStr(env_token),
          db_type |-> "motherduck"]
    ELSE [ok |-> FALSE, type |-> "ValueError", msg |-> ResolveTokenMsg]

\* Mutant of ResolveDbPathType: the s3 test accepts the scheme without "//".
ResolveDbPathTypeLoosePrefix(path, motherduck_token, env_token, saas_mode) ==
    IF StartsWith(path, <<"s", "3", ":">>)
    THEN [ok |-> TRUE, db_path |-> path, db_type |-> "s3"]
    ELSE IF StartsWith(path, MdPrefix)
    THEN ResolveMd(path, motherduck_token, env_token, saas_mode)
    ELSE [ok |-> TRUE, db_path |-> path, db_type |-> "duckdb"]

\* Lines 130-169.
ResolveDbPathType(path, motherduck_token, env_token, saas_mode) ==
    IF StartsWith(path, S3Prefix)
    THEN [ok |-> TRUE, db_path |-> path, db_type |-> "s3"]
    ELSE IF StartsWith(path, MdPrefix)
    THEN ResolveMd(path, motherduck_token, env_token, saas_mode)
    ELSE IF path = MemoryPath
    THEN [ok |-> TRUE, db_path |-> path, db_type |-> "duckdb"]
    ELSE [ok |-> TRUE, db_path |-> path, db_type |-> "duckdb"]

-----------------------------------------------------------------------------
(* State *)

ArgSpace ==
    [db_path : Paths, motherduck_token : ArgTokens, env_token : EnvTokens,
     saas_mode : BOOLEAN, read_only : BOOLEAN, aws_creds : BOOLEAN]

Init ==
    /\ pc = "new"
    /\ args \in ArgSpace
    /\ read_only = FALSE
    /\ db_path = <<>>
    /\ db_type = "unset"
    /\ conn = NoAttr
    /\ local_conn = {}
    /\ conns = <<>>
    /\ connectCalls = 0
    /\ stmts = <<>>
    /\ error = NoError
    /\ last = NoCall
    /\ nOk = 0
    /\ nFail = 0
    /\ calls = <<>>

\* __init__, lines 22-25: store the flag, resolve the path.  Lines 28-30 set
\* HOME for the engine; nothing below reads it.
Construct ==
    /\ pc = "new"
    /\ read_only' = args.read_only
    /\ LET r == ResolveDbPathType(args.db_path, args.motherduck_token,
                                  args.env_token, args.saas_mode)
       IN IF r.ok
          THEN /\ db_path' = r.db_path
               /\ db_type' = r.db_type
               /\ pc' = "resolved"
               /\ error' = error
          ELSE /\ pc' = "failed"
               /\ error' = [type |-> r.type, msg |-> r.msg]
               /\ UNCHANGED <<db_path, db_type>>
    /\ UNCHANGED <<args, conn, local_conn, conns, connectCalls, stmts, last,
                   nOk, nFail, calls>>

\* Backend bookkeeping.
Opened(cs, address, ro) ==
    Append(cs, [address |-> address, read_only |-> ro, open |-> TRUE])
Closed(cs, id) == [cs EXCEPT ![id].open = FALSE]
Issued(log, sql, result) == Append(log, [sql |-> sql, result |-> result])
BackendError(msg) == [type |-> "duckdb.Error", msg |-> msg]
OpenConns == {i \in 1..Len(conns) : conns[i].open}

ConnectOutcomes == {OK, MsgOther}
InstallOutcomes == {OK, MsgAlready, MsgOther}
StmtOutcomes == {OK, MsgOther}
AttachOutcomes == {OK, MsgMissing, MsgOther}
QueryOutcomes == {OK, MsgSyntax, MsgOther}

-----------------------------------------------------------------------------
(* _initialize_connection *)

S3ReadOnlyMsg == <<"Read-only mode is not supported for S3 databases">>

\* Mutant of InitBranch: read-only on s3 is not rejected.
InitBranchNoReject(t, ro) ==
    IF t = "duckdb" /\ ro THEN "validate"
    ELSE IF t = "s3" THEN "s3"
    ELSE "persistent"

\* Mutant of InitBranch: every read-only target is validated and discarded.
InitBranchAnyReadOnly(t, ro) ==
    IF t = "s3" /\ ro THEN "reject"
    ELSE IF ro THEN "validate"
    ELSE IF t = "s3" THEN "s3"
    ELSE "persistent"

\* The order of the tests at lines 40, 43, 61 and the fall-through at 120.
InitBranch(t, ro) ==
    IF t = "s3" /\ ro THEN "reject"
    ELSE IF t = "duckdb" /\ ro THEN "validate"
    ELSE IF t = "s3" THEN "s3"
    ELSE "persistent"

\* Lines 39-41.
InitRejectS3ReadOnly ==
    /\ pc = "resolved"
    /\ InitBranch(db_type, read_only) = "reject"
    /\ pc' = "failed"
    /\ error' = [type |-> "ValueError", msg |-> S3ReadOnlyMsg]
    /\ UNCHANGED <<args, read_only, db_path, db_type, conn, local_conn, conns,
                   connectCalls, stmts, last, nOk, nFail, calls>>

\* Lines 43-58: connect read-only, SELECT 1, close, return None.
InitValidateReadOnly ==
    /\ pc = "resolved"
    /\ InitBranch(db_type, read_only) = "validate"
    /\ \E c \in ConnectOutcomes, s \in StmtOutcomes :
         /\ connectCalls' = connectCalls + 1
         /\ IF c # OK
            THEN /\ pc' = "failed"
                 /\ error' = BackendError(c)
                 /\ UNCHANGED <<conns, stmts, conn>>
            ELSE LET cs == Opened(conns, db_path, read_only)
                     id == Len(cs)
                 IN /\ stmts' = Issued(stmts, "SELECT 1", s)
                    /\ IF s # OK
                       THEN /\ pc' = "failed"
                            /\ error' = BackendError(s)
                            /\ conns' = cs
                            /\ conn' = conn
                       ELSE /\ pc' = "ready"
                            /\ error' = error
                            /\ conns' = Closed(cs, id)
                            /\ conn' = NoneHandle
    /\ UNCHANGED <<args, read_only, db_path, db_type, local_conn, last, nOk,
                   nFail, calls>>

\* Lines 120-128.
InitPersistent ==
    /\ pc = "resolved"
    /\ InitBranch(db_type, read_only) = "persistent"
    /\ \E c \in ConnectOutcomes :
         /\ connectCalls' = connectCalls + 1
         /\ IF c # OK
            THEN /\ pc' = "failed"
                 /\ error' = BackendError(c)
                 /\ UNCHANGED <<conns, conn>>
            ELSE /\ conns' = Opened(conns, db_path, read_only)
                 /\ conn' = Handle(Len(conns) + 1)
                 /\ pc' = "ready"
                 /\ error' = error
    /\ UNCHANGED <<args, read_only, db_path, db_type, local_conn, stmts, last,
                   nOk, nFail, calls>>

\* Line 63: the S3 path works on an in-memory connection.
InitS3Connect ==
    /\ pc = "resolved"
    /\ InitBranch(db_type, read_only) = "s3"
    /\ \E c \in ConnectOutcomes :
         /\ connectCalls' = connectCalls + 1
         /\ IF c # OK
            THEN /\ pc' = "failed"
                 /\ error' = BackendError(c)
                 /\ UNCHANGED <<conns, local_conn>>
            ELSE /\ conns' = Opened(conns, MemoryPath, FALSE)
                 /\ local_conn' = {Len(conns) + 1}
                 /\ pc' = "s3_ext"
                 /\ error' = error
    /\ UNCHANGED <<args, read_only, db_path, db_type, conn, stmts, last, nOk,
                   nFail, calls>>

\* Lines 69-75: INSTALL under a bare except, then LOAD.
InstallAndLoad(log, i, l) ==
    LET log1 == Issued(log, "INSTALL httpfs", i)
    IN [stmts |-> Issued(log1, "LOAD httpfs", l), exc |-> l]

InitS3Extension ==
    /\ pc = "s3_ext"
    /\ \E i \in InstallOutcomes, l \in StmtOutcomes :
         LET r == InstallAndLoad(stmts, i, l)
         IN /\ stmts' = r.stmts
            /\ IF r.exc # OK
               THEN pc' = "failed" /\ error' = BackendError(r.exc)
               ELSE pc' = "s3_secret" /\ error' = error
    /\ UNCHANGED <<args, read_only, db_path, db_type, conn, local_conn, conns,
                   connectCalls, last, nOk, nFail, calls>>

\* Lines 78-92: CREATE SECRET only when both keys are set.
InitS3Secret ==
    /\ pc = "s3_secret"
    /\ IF args.aws_creds
       THEN \E s \in StmtOutcomes :
              /\ stmts' = Issued(stmts, "CREATE SECRET", s)
              /\ IF s # OK
                 THEN pc' = "failed" /\ error' = BackendError(s)
                 ELSE pc' = "s3_attach" /\ error' = error
       ELSE /\ pc' = "s3_attach"
            /\ UNCHANGED <<stmts, error>>
    /\ UNCHANGED <<args, read_only, db_path, db_type, conn, local_conn, conns,
                   connectCalls, last, nOk, nFail, calls>>

\* One ATTACH followed by USE; the first statement that raises ends the block.
AttachThenUse(log, sql, a, u) ==
    IF a # OK
    THEN [stmts |-> Issued(log, sql, a), exc |-> a]
    ELSE [stmts |-> Issued(Issued(log, sql, OK), "USE s3db", u), exc |-> u]

\* Mutant of AttachS3: the handler retries after any failure.
AttachS3RetryAlways(log, ro, a1, u1, a2, u2) ==
    LET first == AttachThenUse(log, "ATTACH READ_ONLY", a1, u1)
    IN IF first.exc = OK
       THEN first
       ELSE IF ~ro
       THEN AttachThenUse(first.stmts, "ATTACH", a2, u2)
       ELSE first

\* Lines 94-116: the try block and its handler.
AttachS3(log, ro, a1, u1, a2, u2) ==
    LET first == AttachThenUse(log, "ATTACH READ_ONLY", a1, u1)
    IN IF first.exc = OK
       THEN first
       ELSE IF Contains(first.exc, "database does not exist") /\ ~ro
       THEN AttachThenUse(first.stmts, "ATTACH", a2, u2)
       ELSE first

\* Lines 94-118.
InitS3Attach ==
    /\ pc = "s3_attach"
    /\ \E a1 \in AttachOutcomes, u1 \in AttachOutcomes,
          a2 \in AttachOutcomes, u2 \in StmtOutcomes :
         LET r == AttachS3(stmts, read_only, a1, u1, a2, u2)
         IN /\ stmts' = r.stmts
            /\ IF r.exc # OK
               THEN /\ pc' = "failed"
                    /\ error' = BackendError(r.exc)
                    /\ conn' = conn
               ELSE /\ pc' = "ready"
                    /\ error' = error
                    /\ conn' = Handle(TheStr(local_conn))
    /\ UNCHANGED <<args, read_only, db_path, db_type, local_conn, conns,
                   connectCalls, last, nOk, nFail, calls>>

-----------------------------------------------------------------------------
(* _execute and query *)

QueryErrorPrefix == <<"Error executing query:">>

\* Mutant of Execute: the short-lived connection is never closed.
ExecuteNoClose(h, cs, address, ro, c, e, f) ==
    IF h.handle = {}
    THEN IF c # OK
         THEN [conns |-> cs, connects |-> 1, executes |-> 0, closes |-> 0, exc |-> c]
         ELSE [conns |-> Opened(cs, address, ro), connects |-> 1, executes |-> 1,
               closes |-> 0, exc |-> IF e # OK THEN e ELSE f]
    ELSE [conns |-> cs, connects |-> 0, executes |-> 1, closes |-> 0,
          exc |-> IF ~cs[TheStr(h.handle)].open THEN MsgClosed
                  ELSE IF e # OK THEN e ELSE f]

\* Lines 171-192.  c, e, f: outcome of connect, execute, fetchall/tabulate.
Execute(h, cs, address, ro, c, e, f) ==
    IF h.handle = {}
    THEN IF c # OK
         THEN [conns |-> cs, connects |-> 1, executes |-> 0, closes |-> 0, exc |-> c]
         ELSE LET cs1 == Opened(cs, address, ro)
              IN IF e # OK
                 THEN [conns |-> cs1, connects |-> 1, executes |-> 1, closes |-> 0, exc |-> e]
                 ELSE IF f # OK
                 THEN [conns |-> cs1, connects |-> 1, executes |-> 1, closes |-> 0, exc |-> f]
                 ELSE [conns |-> Closed(cs1, Len(cs1)), connects |-> 1,
                       executes |-> 1, closes |-> 1, exc |-> OK]
    ELSE LET id == TheStr(h.handle)
             eff == IF cs[id].open THEN e ELSE MsgClosed
         IN IF eff # OK
            THEN [conns |-> cs, connects |-> 0, executes |-> 1, closes |-> 0, exc |-> eff]
            ELSE [conns |-> cs, connects |-> 0, executes |-> 1, closes |-> 0, exc |-> f]

\* Mutant of WrapQueryError: the backend's message is dropped.
WrapQueryErrorNoCause(exc) == [type |-> "ValueError", msg |-> QueryErrorPrefix]

\* Lines 194-199: the except clause of query().
WrapQueryError(exc) == [type |-> "ValueError", msg |-> QueryErrorPrefix \o exc]

Query ==
    /\ pc = "ready"
    /\ nOk + nFail < MaxQueries
    /\ \E c \in ConnectOutcomes, e \in QueryOutcomes, f \in StmtOutcomes :
         LET r == Execute(conn, conns, db_path, read_only, c, e, f)
         IN /\ conns' = r.conns
            /\ connectCalls' = connectCalls + r.connects
            /\ IF r.exc = OK
               THEN /\ last' = [status |-> "ok", type |-> "none", msg |-> <<>>,
                                cause |-> <<>>,
                                connects |-> r.connects, executes |-> r.executes,
                                closes |-> r.closes]
                    /\ nOk' = nOk + 1
                    /\ nFail' = nFail
               ELSE /\ last' = [status |-> "error",
                                type |-> WrapQueryError(r.exc).type,
                                msg |-> WrapQueryError(r.exc).msg,
                                cause |-> r.exc,
                                connects |-> r.connects, executes |-> r.executes,
                                closes |-> r.closes]
                    /\ nOk' = nOk
                    /\ nFail' = nFail + 1
    /\ UNCHANGED <<pc, args, read_only, db_path, db_type, conn, local_conn,
                   stmts, error, calls>>

Next ==
    \/ Construct
    \/ InitRejectS3ReadOnly
    \/ InitValidateReadOnly
    \/ InitPersistent
    \/ InitS3Connect
    \/ InitS3Extension
    \/ InitS3Secret
    \/ InitS3Attach
    \/ Query


Spec == Init /\ [][Next]_vars

-----------------------------------------------------------------------------
(* The resolver on its own: the two most recent calls and what they returned *)

DefaultArgs ==
    [db_path |-> MemoryPath, motherduck_token |-> {}, env_token |-> {},
     saas_mode |-> FALSE, read_only |-> FALSE, aws_creds |-> FALSE]

InitResolve ==
    /\ pc = "new"
    /\ args = DefaultArgs
    /\ read_only = FALSE
    /\ db_path = <<>>
    /\ db_type = "unset"
    /\ conn = NoAttr
    /\ local_conn = {}
    /\ conns = <<>>
    /\ connectCalls = 0
    /\ stmts = <<>>
    /\ error = NoError
    /\ last = NoCall
    /\ nOk = 0
    /\ nFail = 0
    /\ calls = <<>>

ResolveCall ==
    /\ \E p \in Paths, t \in ArgTokens, e \in EnvTokens, s \in BOOLEAN :
         LET c == [path |-> p, motherduck_token |-> t, env_token |-> e,
                   saas_mode |-> s, result |-> ResolveDbPathType(p, t, e, s)]
         IN calls' = IF calls = <<>> THEN <<c>> ELSE <<calls[Len(calls)], c>>
    /\ UNCHANGED clientVars

NextResolve == ResolveCall

SpecResolve == InitResolve /\ [][NextResolve]_vars

-----------------------------------------------------------------------------
(* Properties *)

\* The four kinds of the specification's data model, by first-match prefix.
Kind4(path) ==
    IF StartsWith(path, S3Prefix) THEN "RemoteObjectStore"
    ELSE IF StartsWith(path, MdPrefix) THEN "Cloud"
    ELSE IF path = MemoryPath THEN "InMemory"
    ELSE "Local"

\* The value of db_type the code returns for each of them.
TypeOfKind(k) ==
    CASE k = "RemoteObjectStore" -> "s3"
      [] k = "Cloud" -> "motherduck"
      [] k = "InMemory" -> "duckdb"
      [] k = "Local" -> "duckdb"

Constructed == pc \in {"ready", "failed"}
IsSuffix(suffix, s) ==
    /\ Len(suffix) <= Len(s)
    /\ SubSeq(s, Len(s) - Len(suffix) + 1, Len(s)) = suffix
StmtIndex(sql) == {i \in 1..Len(stmts) : stmts[i].sql = sql}

\* C1: in absent-handle mode no connection opened by a query() call remains
\* open once the call has returned, whether the call succeeded or failed.
C1_NoConnectionLeaked ==
    (pc = "ready" /\ conn = NoneHandle) => OpenConns = {}

\* C2: a Local read-only client validates with one connection that is closed
\* again and keeps no handle; every successful query() connects exactly once,
\* read-only against the resolved address, and closes that connection, so that
\* after N successful calls (and no failed one) connect was called 1 + N times.
C2_ConnectionPerCall ==
    (pc = "ready" /\ Kind4(args.db_path) = "Local" /\ read_only) =>
        /\ conn = NoneHandle
        /\ db_path = args.db_path
        /\ ~conns[1].open
        /\ \A i \in 1..Len(conns) :
             conns[i].address = db_path /\ conns[i].read_only
        /\ last.status = "ok" =>
             /\ last.connects = 1
             /\ last.closes = 1
             /\ ~conns[Len(conns)].open
        /\ nFail = 0 =>
             /\ connectCalls = 1 + nOk
             /\ Len(conns) = 1 + nOk
             /\ OpenConns = {}

C2_Witness ==
    /\ pc = "ready"
    /\ Kind4(args.db_path) = "Local"
    /\ read_only
    /\ nOk >= 2
    /\ nFail = 0
    /\ connectCalls = 3

\* The single connection opened by initialization is the handle, still open
\* and the only one the backend has seen.
PersistentHandle ==
    /\ conn = Handle(1)
    /\ connectCalls = 1
    /\ Len(conns) = 1
    /\ conns[1].open
    /\ db_type # "s3" => conns[1] = [address |-> db_path, read_only |-> read_only,
                                     open |-> TRUE]

C4_S3ReadOnlyRejected ==
    (Kind4(args.db_path) = "RemoteObjectStore" /\ args.read_only) =>
        /\ pc \in {"new", "resolved", "failed"}
        /\ pc = "failed" => error = [type |-> "ValueError", msg |-> S3ReadOnlyMsg]
        /\ connectCalls = 0
        /\ conns = <<>>
        /\ stmts = <<>>
        /\ local_conn = {}
        /\ conn = NoAttr

C4_Witness ==
    /\ pc = "failed"
    /\ Kind4(args.db_path) = "RemoteObjectStore"
    /\ args.read_only
    /\ args.aws_creds
    /\ error.msg = S3ReadOnlyMsg

\* The first attempt (ATTACH READ_ONLY, then USE) raised the missing-database
\* condition.
FirstAttemptMissing ==
    \E i \in StmtIndex("ATTACH READ_ONLY") :
        \/ Contains(stmts[i].result, "database does not exist")
        \/ /\ stmts[i].result = OK
           /\ Contains(stmts[i + 1].result, "database does not exist")

\* C5: an s3:// client without read-only first attaches read-only and switches
\* to the alias; a retry attach without the qualifier is issued exactly when
\* that attempt raised "database does not exist", at most once, followed by
\* USE, and then its connection is the handle.  Any other failure of the first
\* attempt and any failure of the retry end initialization with no handle; with
\* read-only requested no attach is issued at all and no handle exists.
C5_CreateThenUse ==
    (db_type = "s3" /\ Constructed) =>
        /\ Cardinality(StmtIndex("ATTACH READ_ONLY")) <= 1
        /\ Cardinality(StmtIndex("ATTACH")) <= 1
        /\ \A j \in StmtIndex("ATTACH") :
             /\ \E i \in StmtIndex("ATTACH READ_ONLY") : i < j
             /\ stmts[j].result = OK =>
                  (Len(stmts) = j + 1 /\ stmts[j + 1].sql = "USE s3db")
             /\ stmts[j].result # OK => Len(stmts) = j
        /\ \A i \in StmtIndex("ATTACH READ_ONLY") :
             stmts[i].result = OK => stmts[i + 1].sql = "USE s3db"
        /\ StmtIndex("ATTACH READ_ONLY") # {} =>
             (StmtIndex("ATTACH") # {} <=> FirstAttemptMissing)
        /\ pc = "ready" <=>
             /\ stmts # <<>>
             /\ stmts[Len(stmts)] = [sql |-> "USE s3db", result |-> OK]
        /\ pc = "ready" => (conn = Handle(1) /\ local_conn = {1} /\ conns[1].open)
        /\ pc = "failed" => conn = NoAttr
        /\ read_only =>
             (StmtIndex("ATTACH READ_ONLY") = {} /\ StmtIndex("ATTACH") = {}
              /\ pc = "failed")

C5_Witness ==
    /\ pc = "ready"
    /\ db_type = "s3"
    /\ FirstAttemptMissing
    /\ StmtIndex("ATTACH") # {}
    /\ conn = Handle(1)

\* The token the specification says is used: the argument first, else the
\* environment.
SpecToken(a) ==
    IF Truthy(a.motherduck_token) THEN TheStr(a.motherduck_token)
    ELSE TheStr(a.env_token)

\* C6: for an md: path with a token available the resolved address is the path
\* plus the token parameter (argument first, else environment), plus the SaaS
\* flag exactly when saasMode is set, whichever source supplied the token.
C6_TokenAndSaasAppended ==
    (/\ pc # "new"
     /\ StartsWith(args.db_path, MdPrefix)
     /\ (Truthy(args.motherduck_token) \/ Truthy(args.env_token))) =>
        /\ pc # "failed" \/ error.type # "ValueError"
        /\ db_path = args.db_path \o TokenParam \o SpecToken(args)
                       \o (IF args.saas_mode THEN SaasParam ELSE <<>>)

\* C7: an md: path with neither a token argument nor an environment token
\* fails resolution with the configuration error; construction stops there:
\* connect is never called and no handle exists.
C7_MissingTokenAborts ==
    (/\ pc # "new"
     /\ StartsWith(args.db_path, MdPrefix)
     /\ ~Truthy(args.motherduck_token)
     /\ ~Truthy(args.env_token)) =>
        /\ pc = "failed"
        /\ error = [type |-> "ValueError", msg |-> ResolveTokenMsg]
        /\ db_type = "unset"
        /\ connectCalls = 0
        /\ conns = <<>>
        /\ stmts = <<>>
        /\ conn = NoAttr

C7_Witness ==
    /\ pc = "failed"
    /\ StartsWith(args.db_path, MdPrefix)
    /\ args.motherduck_token = {}
    /\ args.env_token = {}
    /\ args.saas_mode
    /\ error.msg = ResolveTokenMsg

\* What every resolver call must satisfy under either reading of C8: it fails
\* only for an md: path, and the address of the other kinds is the input path.
ResolvedByPrefix(c) ==
    /\ ~c.result.ok => Kind4(c.path) = "Cloud"
    /\ (c.result.ok /\ Kind4(c.path) # "Cloud") => c.result.db_path = c.path

\* C8 as stated: the kind depends on the path alone, by first-match
\* case-sensitive prefix, the address of the non-cloud kinds is the path, and
\* the four kinds are distinguishable in the result.
C8_FourKindsDistinguishable ==
    \A i \in 1..Len(calls) :
        /\ ResolvedByPrefix(calls[i])
        /\ \A j \in 1..Len(calls) :
             (calls[i].result.ok /\ calls[j].result.ok) =>
                 (calls[i].result.db_type = calls[j].result.db_type
                    <=> Kind4(calls[i].path) = Kind4(calls[j].path))

\* C8 amended: whenever resolution succeeds the returned type depends on the
\* path alone, by first-match case-sensitive prefix: "s3://" gives s3, "md:"
\* gives motherduck, and both ":memory:" and every other path give duckdb, so
\* three types are distinguishable in the result (InMemory and Local are not);
\* for s3 and duckdb the address is the input path unchanged.
C8_ThreeTypesByPrefix ==
    \A i \in 1..Len(calls) :
        /\ ResolvedByPrefix(calls[i])
        /\ calls[i].result.ok =>
             calls[i].result.db_type = TypeOfKind(Kind4(calls[i].path))
        /\ \A j \in 1..Len(calls) :
             (calls[i].result.ok /\ calls[j].result.ok
              /\ calls[i].path = calls[j].path) =>
                 calls[i].result.db_type = calls[j].result.db_type

C8_Witness ==
    /\ Len(calls) = 2
    /\ calls[1].path = MemoryPath
    /\ Kind4(calls[2].path) = "Local"
    /\ Truthy(calls[2].motherduck_token)
    /\ calls[2].saas_mode
    /\ calls[1].result.db_type = calls[2].result.db_type

\* C9: a query() call whose backend execution (or the fetch after it) raises
\* fails with the query error, whose message ends with the backend's message;
\* execute was issued once; handle, address, type and flag are as before, and
\* a query the backend accepts succeeds on the client as the call left it.
C9_FailedQueryStep ==
    [][(pc = "ready" /\ nFail' = nFail + 1 /\ last'.executes > 0) =>
         /\ last'.status = "error"
         /\ last'.type = "ValueError"
         /\ last'.cause # OK
         /\ last'.msg = QueryErrorPrefix \o last'.cause
         /\ IsSuffix(last'.cause, last'.msg)
         /\ last'.executes = 1
         /\ conn' = conn
         /\ db_path' = db_path
         /\ db_type' = db_type
         /\ read_only' = read_only
         /\ Execute(conn', conns', db_path', read_only', OK, OK, OK).exc = OK
      ]_vars

C9_Witness ==
    /\ pc = "ready"
    /\ conn = Handle(1)
    /\ nFail >= 1
    /\ last.status = "ok"
    /\ last.executes = 1

\* C10: a failure of INSTALL other than "already installed" propagates: no
\* statement follows it and initialization fails.
C10_InstallFailurePropagates ==
    \A i \in StmtIndex("INSTALL httpfs") :
        (stmts[i].result # OK /\ ~Contains(stmts[i].result, "already installed")) =>
            (Len(stmts) = i /\ pc = "failed")

====
